---- MODULE Spec2Model ----
(***************************************************************************)
(* Model of the staking skill of webgeek04/saraai:                         *)
(*   packages/valory/skills/staking_abci/behaviours.py                     *)
(* of its Mech contract wrapper:                                           *)
(*   packages/valory/contracts/mech/contract.py                            *)
(* and of its two strategies:                                              *)
(*   packages/valory/customs/risk_adjusted_bet_amount                      *)
(*   packages/valory/customs/risk_adjusted_position_size                   *)
(*                                                                         *)
(* Spec      one activation of CallCheckpointBehaviour.async_act.          *)
(* SpecBase  one call of StakingInteractBaseBehaviour                      *)
(*           .wait_for_condition_with_sleep by a caller that polls one of  *)
(*           the base behaviour's readers, with or without a timeout.      *)
(* SpecMech  one call of Mech.process_request_event or                     *)
(*           Mech.process_deliver_event on a transaction receipt.          *)
(* SpecStrategy  one call of run of one of the two strategies.             *)
(*                                                                         *)
(* A suspendable computation is cut at its suspension points: one action   *)
(* is the code between two yields (a remote call with its response, a      *)
(* sleep, the payload submission, the wait for the end of the round).      *)
(* Optional values are sets of at most one element: None is {} and a       *)
(* present value v is {v}.                                                 *)
(***************************************************************************)
EXTENDS Integers, Sequences, FiniteSets, TLC

VARIABLES
    params,            \* self.context.params (read-only configuration)
    synced_timestamp,  \* round_sequence.last_round_transition_timestamp
    self,              \* the private attributes of the behaviour instance
    pc,                \* the step of the caller that is polled or runs next
    ppc,               \* position inside wait_for_condition_with_sleep
    timeout,           \* the poll's timeout argument (Optional)
    deadline,          \* the poll's deadline
    now,               \* datetime.now(), the local wall clock
    started,           \* the local time at which the current poll was called
    last_step,         \* duration of the latest invocation of the condition
    fails,             \* number of false condition results so far
    trace,             \* what the behaviour did, in order
    payload,           \* the CallCheckpointPayload built (Optional)
    raised,            \* the exception that ended the computation, or "none"
    tx_receipt,        \* the logs of the receipt handed to the Mech wrapper
    event_name,        \* the event the Mech wrapper was asked for, "" before
    mech_result,       \* what the Mech wrapper returned (Optional)
    strategy,          \* the strategy module whose run is called, "" if none
    run_kwargs,        \* the keyword arguments of run
    strategy_result    \* what run returned or raised (Optional)

\* the state of the Mech wrapper's call and of the strategy's call
mech_vars == <<tx_receipt, event_name, mech_result>>
strategy_vars == <<strategy, run_kwargs, strategy_result>>

\* the state of the behaviour
behaviour_vars ==
    <<params, synced_timestamp, self, pc, ppc, timeout, deadline, now,
      started, last_step, fails, trace, payload, raised>>

vars == <<behaviour_vars, mech_vars, strategy_vars>>

----------------------------------------------------------------------------
(* Bounds of the model *)

\* largest timestamp returned by get_next_checkpoint_ts / agreed by the round
MaxTs == 1
\* largest number of false condition results in one run
MaxFails == 2
\* largest duration of one invocation of a condition (a remote call)
MaxStepTime == 2
\* largest timeout handed to a timeout-bounded poll
MaxTimeout == 2
\* params.staking_interaction_sleep_time
SleepTime == 2
\* one tick of the clock: the slack of a strict bound on elapsed time
Epsilon == 1

----------------------------------------------------------------------------
(* Constants of the program *)

ETH_PRICE == 0
SAFE_GAS == 0
TX_HASH_LENGTH == 66
NULL_ADDRESS == "0x0000000000000000000000000000000000000000"

None == {}
Some(v) == {v}
Val(o) == CHOOSE v \in o : TRUE

\* the two StakingState enumerations: same ordinals, distinct classes
StakingStateCls == "service_staking_token.StakingState"
StakingTokenStakingStateCls == "staking_token.StakingState"
StakingState(value) == [cls |-> StakingStateCls, value |-> value]
StakingTokenStakingState(value) ==
    [cls |-> StakingTokenStakingStateCls, value |-> value]
UNSTAKED == StakingState(0)
STAKED == StakingState(1)
EVICTED == StakingState(2)

\* contract ids
StakingTokenContract == "valory/staking_token"
ServiceStakingTokenContract == "valory/service_staking_token"
MechActivityContract == "valory/mech_activity"
GnosisSafeContract == "valory/gnosis_safe"

\* addresses of the deployment
StakingAddress == "0xSTAKING"
ActivityCheckerAddress == "0xCHECKER"
SafeAddress == "0xSAFE"

\* ContractApiMessage performatives
RAW_TRANSACTION == "raw_transaction"
ERROR == "error"

----------------------------------------------------------------------------
(* Values a remote call can return *)

\* a hex string of the given length: "0x" followed by one repeated digit
HexString(length, digit) ==
    [i \in 1..length |-> IF i = 1 THEN "0" ELSE IF i = 2 THEN "x" ELSE digit]

\* the answers of get_raw_safe_transaction_hash: well-formed hashes, one
\* without the room for a prefix and one that is a character too long
SafeTxHashes ==
    { HexString(TX_HASH_LENGTH, "a"), HexString(TX_HASH_LENGTH, "b"),
      HexString(TX_HASH_LENGTH - 2, "a"), HexString(TX_HASH_LENGTH + 1, "a") }

CheckpointDatas == {"checkpoint()#1", "checkpoint()#2"}
Timestamps == 0..MaxTs
\* a remote call answers at once or takes the longest time
StepTimes == {0, MaxStepTime}
ServiceIds == {None, Some(42)}
Ratios == {1}

\* Optional[float] timeouts a caller may pass
Timeouts == {None} \cup {Some(t) : t \in 0..MaxTimeout}

\* raw_transaction.body.get(data_key, None)
Get(body, data_key) ==
    IF data_key \in DOMAIN body THEN body[data_key] ELSE None

\* a response is soft-failed when it is no RAW_TRANSACTION or lacks the field
SoftFailed(response, data_key) ==
    \/ response.performative # RAW_TRANSACTION
    \/ Get(response.body, data_key) = None

\* the responses of the remote call gateway to a call that reads data_key
Responses(data_key, values) ==
    { [performative |-> ERROR, body |-> ("message" :> Some(0))],
      [performative |-> RAW_TRANSACTION, body |-> ("other" :> Some(0))],
      [performative |-> RAW_TRANSACTION, body |-> (data_key :> None)] }
    \cup { [performative |-> RAW_TRANSACTION, body |-> (data_key :> Some(v))] :
           v \in values }

\* how a response reads in the log
Status(response, data_key) ==
    IF response.performative # RAW_TRANSACTION THEN "error"
    ELSE IF Get(response.body, data_key) = None THEN "missing"
    ELSE "ok"

----------------------------------------------------------------------------
(* StakingInteractBaseBehaviour: properties *)

use_v2 == params.mech_activity_checker_contract # NULL_ADDRESS

staking_contract_address == params.staking_contract_address

\* mutant: the checkpoint counts as reached only after its timestamp
Mut_is_checkpoint_reached_strict(obj) ==
    obj._next_checkpoint < synced_timestamp

\* mutant: the comparison is inverted
Mut_is_checkpoint_reached_inverted(obj) ==
    obj._next_checkpoint >= synced_timestamp

\* mutant: the checkpoint is compared with the local clock
Mut_is_checkpoint_reached_local_clock(obj) == obj._next_checkpoint <= now

is_checkpoint_reached(obj) == obj._next_checkpoint <= synced_timestamp

\* the enumeration a staking contract answers get_service_staking_state with
StakingStatesOf(contract_id) ==
    IF contract_id = StakingTokenContract
    THEN {StakingTokenStakingState(v) : v \in 0..2}
    ELSE {StakingState(v) : v \in 0..2}

\* mutant: the state is stored as it came
Mut_service_staking_state_setter_raw(state) == state

service_staking_state_setter(state) ==
    IF state.cls = StakingTokenStakingStateCls
    THEN StakingState(state.value)
    ELSE state

\* mutant: only a hash that is too short is refused
Mut_safe_tx_hash_setter_short(safe_hash) ==
    IF Len(safe_hash) < TX_HASH_LENGTH
    THEN [raised |-> "ValueError", value |-> safe_hash]
    ELSE [raised |-> "none", value |-> SubSeq(safe_hash, 3, Len(safe_hash))]

safe_tx_hash_setter(safe_hash) ==
    IF Len(safe_hash) # TX_HASH_LENGTH
    THEN [raised |-> "ValueError", value |-> safe_hash]
    ELSE [raised |-> "none", value |-> SubSeq(safe_hash, 3, Len(safe_hash))]

\* setattr(self, placeholder, data), through the property setters
setattr(obj, placeholder, data) ==
    CASE placeholder = "service_staking_state" ->
           [raised |-> "none",
            self |-> [obj EXCEPT !._service_staking_state =
                                     service_staking_state_setter(data)]]
      [] placeholder = "next_checkpoint" ->
           [raised |-> "none", self |-> [obj EXCEPT !._next_checkpoint = data]]
      [] placeholder = "checkpoint_data" ->
           [raised |-> "none", self |-> [obj EXCEPT !._checkpoint_data = data]]
      [] placeholder = "safe_tx_hash" ->
           LET s == safe_tx_hash_setter(data) IN
           IF s.raised # "none"
           THEN [raised |-> s.raised, self |-> obj]
           ELSE [raised |-> "none",
                 self |-> [obj EXCEPT !._safe_tx_hash = s.value]]
      [] placeholder = "ts_checkpoint" ->
           [raised |-> "none",
            self |-> [obj EXCEPT !._checkpoint_ts = Some(data)]]
      [] placeholder = "liveness_period" ->
           [raised |-> "none",
            self |-> [obj EXCEPT !._liveness_period = Some(data)]]
      [] placeholder = "liveness_ratio" ->
           [raised |-> "none",
            self |-> [obj EXCEPT !._liveness_ratio = Some(data)]]
      [] placeholder = "service_info" ->
           [raised |-> "none",
            self |-> [obj EXCEPT !._service_info = Some(data)]]

\* mutant: the field is read with body[data_key], which raises when absent
Mut_contract_interact_keyerror(obj, response, data_key, placeholder) ==
    IF response.performative # RAW_TRANSACTION
    THEN [ok |-> FALSE, raised |-> "none", self |-> obj]
    ELSE LET data == Get(response.body, data_key) IN
         IF data = None
         THEN [ok |-> FALSE, raised |-> "KeyError", self |-> obj]
         ELSE LET s == setattr(obj, placeholder, Val(data)) IN
              IF s.raised # "none"
              THEN [ok |-> FALSE, raised |-> s.raised, self |-> obj]
              ELSE [ok |-> TRUE, raised |-> "none", self |-> s.self]

\* mutant: a failed call clears what earlier calls have stored
Mut_contract_interact_clears(obj, response, data_key, placeholder) ==
    IF response.performative # RAW_TRANSACTION
    THEN [ok |-> FALSE, raised |-> "none",
          self |-> [obj EXCEPT !._service_staking_state = StakingState(0),
                               !._next_checkpoint = 0,
                               !._checkpoint_data = ""]]
    ELSE LET data == Get(response.body, data_key) IN
         IF data = None
         THEN [ok |-> FALSE, raised |-> "none", self |-> obj]
         ELSE LET s == setattr(obj, placeholder, Val(data)) IN
              IF s.raised # "none"
              THEN [ok |-> FALSE, raised |-> s.raised, self |-> obj]
              ELSE [ok |-> TRUE, raised |-> "none", self |-> s.self]

\* contract_interact, from the response on: the condition's result, the
\* exception it raised ("none" when it returned) and the instance afterwards
contract_interact(obj, response, data_key, placeholder) ==
    IF response.performative # RAW_TRANSACTION
    THEN [ok |-> FALSE, raised |-> "none", self |-> obj]
    ELSE LET data == Get(response.body, data_key) IN
         IF data = None
         THEN [ok |-> FALSE, raised |-> "none", self |-> obj]
         ELSE LET s == setattr(obj, placeholder, Val(data)) IN
              IF s.raised # "none"
              THEN [ok |-> FALSE, raised |-> s.raised, self |-> obj]
              ELSE [ok |-> TRUE, raised |-> "none", self |-> s.self]

\* mutant: the legacy contract is used whatever the configuration
Mut_StakingContractId_legacy == ServiceStakingTokenContract

\* the contract a staking-contract call is issued against
StakingContractId ==
    IF use_v2 THEN StakingTokenContract ELSE ServiceStakingTokenContract

\* _staking_contract_interact / _mech_activity_checker_contract_interact:
\* where the call goes
staking_contract_target ==
    [contract_id |-> StakingContractId, address |-> staking_contract_address]

mech_activity_checker_target ==
    [contract_id |-> MechActivityContract,
     address |-> params.mech_activity_checker_contract]

\* mutant: the two interactions are swapped
Mut_liveness_ratio_target_swapped ==
    IF use_v2 THEN staking_contract_target ELSE mech_activity_checker_target

\* _get_liveness_ratio: the interaction it selects
liveness_ratio_target ==
    IF use_v2 THEN mech_activity_checker_target ELSE staking_contract_target

safe_target == [contract_id |-> GnosisSafeContract, address |-> SafeAddress]

----------------------------------------------------------------------------
(* wait_for_condition_with_sleep *)

DatetimeMax == [max |-> TRUE, at |-> 0]
At(t) == [max |-> FALSE, at |-> t]

\* mutant: the comparison with the deadline is inverted
Mut_After_inverted(t, d) == ~d.max /\ t < d.at

\* datetime.now() > deadline
After(t, d) == ~d.max /\ t > d.at

Deadline(t, tmo) == IF tmo # None THEN At(t + Val(tmo)) ELSE DatetimeMax

\* mutant: the test of the timeout is "is None or" for "is not None and"
Mut_Outcome_none_raises(condition_satisfied, tmo, d, t) ==
    IF condition_satisfied THEN "break"
    ELSE IF tmo = None \/ After(t, d) THEN "raise"
    ELSE "sleep"

\* mutant: the deadline is tested before the result of the condition
Mut_Outcome_deadline_first(condition_satisfied, tmo, d, t) ==
    IF tmo # None /\ After(t, d) THEN "raise"
    ELSE IF condition_satisfied THEN "break"
    ELSE "sleep"

\* one turn of the loop after the condition returned: break, raise or sleep
Outcome(condition_satisfied, tmo, d, t) ==
    IF condition_satisfied THEN "break"
    ELSE IF tmo # None /\ After(t, d) THEN "raise"
    ELSE "sleep"

----------------------------------------------------------------------------
(* The log *)

NoKwargs ==
    [service_id |-> None, to_address |-> None, value |-> None, data |-> None]

\* a remote call, how its response read and the field it returned
Call(target, callable, kwargs, status, returned) ==
    [ev |-> "call", contract_id |-> target.contract_id,
     address |-> target.address, callable |-> callable, kwargs |-> kwargs,
     status |-> status, returned |-> returned]

Event(name) == [ev |-> name]

----------------------------------------------------------------------------
(* CallCheckpointBehaviour *)

\* __init__: the private attributes of a new instance; the attributes the
\* base class never initialises are unset (None)
InitSelf ==
    [_service_staking_state |-> UNSTAKED,
     _next_checkpoint |-> 0,
     _checkpoint_data |-> "",
     _safe_tx_hash |-> <<>>,
     _checkpoint_ts |-> None,
     _liveness_period |-> None,
     _liveness_ratio |-> None,
     _service_info |-> None]

\* the packed transaction: what the encoder is given
hash_payload_to_hex(safe_tx_hash, ether_value, safe_tx_gas, to_address, data) ==
    [safe_tx_hash |-> safe_tx_hash, ether_value |-> ether_value,
     safe_tx_gas |-> safe_tx_gas, to_address |-> to_address, data |-> data]

CallCheckpointPayload(sender, tx_submitter, tx_hex, service_staking_state) ==
    [sender |-> sender, tx_submitter |-> tx_submitter, tx_hex |-> tx_hex,
     service_staking_state |-> service_staking_state]

\* mutant: every state but UNSTAKED counts as staked
Mut_is_staked_not_unstaked(obj) == obj._service_staking_state # UNSTAKED

\* mutant: the state is not looked at
Mut_is_staked_always(obj) == TRUE

\* async_act, line 454: the service is staked
is_staked(obj) == obj._service_staking_state = STAKED

\* mutant: the polls of the activation are given a timeout
Mut_Poll_bounded(step) ==
    [pc |-> step, ppc |-> "cond", timeout |-> Some(0), payload |-> None,
     events |-> <<>>]

\* what the caller does once a poll returned: the next poll it enters ...
Poll(step) ==
    [pc |-> step, ppc |-> "cond", timeout |-> None, payload |-> None,
     events |-> <<>>]

\* ... or the payload it builds (async_act, lines 459-468)
Emit(obj, checkpoint_tx_hex, events) ==
    [pc |-> "send_a2a_transaction", ppc |-> "idle", timeout |-> None,
     payload |-> Some(CallCheckpointPayload(
                     "agent_address", "call_checkpoint_round",
                     checkpoint_tx_hex, obj._service_staking_state.value)),
     events |-> events \o
                (IF obj._service_staking_state = EVICTED
                 THEN <<Event("critical")>> ELSE <<>>)]

\* mutant: a staked service goes straight to the transaction builder
Mut_AfterCheckServiceStaked_build_first(obj) ==
    IF is_staked(obj) THEN Poll("_build_checkpoint_tx")
    ELSE Emit(obj, None, <<>>)

\* async_act after _check_service_staked returned True (lines 453-455)
AfterCheckServiceStaked(obj) ==
    IF is_staked(obj) THEN Poll("_get_next_checkpoint")
    ELSE Emit(obj, None, <<>>)

\* mutant: a checkpoint that is not due ends the activation without a payload
Mut_AfterGetNextCheckpoint_no_payload(obj) ==
    IF is_checkpoint_reached(obj) THEN Poll("_build_checkpoint_tx")
    ELSE [pc |-> "returned", ppc |-> "idle", timeout |-> None,
          payload |-> None, events |-> <<>>]

\* async_act after _get_next_checkpoint returned True (lines 456-457)
AfterGetNextCheckpoint(obj) ==
    IF is_checkpoint_reached(obj) THEN Poll("_build_checkpoint_tx")
    ELSE Emit(obj, None, <<>>)

\* _prepare_safe_tx after _build_checkpoint_tx returned True (line 439)
AfterBuildCheckpointTx(obj) == Poll("_get_safe_tx_hash")

\* mutant: the transaction is packed for the safe instead of the staking
\* contract
Mut_AfterGetSafeTxHash_to_safe(obj) ==
    Emit(obj,
         Some(hash_payload_to_hex(obj._safe_tx_hash, ETH_PRICE, SAFE_GAS,
                                  SafeAddress, obj._checkpoint_data)),
         <<Event("pack")>>)

\* _prepare_safe_tx after _get_safe_tx_hash returned True (lines 440-446)
AfterGetSafeTxHash(obj) ==
    Emit(obj,
         Some(hash_payload_to_hex(obj._safe_tx_hash, ETH_PRICE, SAFE_GAS,
                                  params.staking_contract_address,
                                  obj._checkpoint_data)),
         <<Event("pack")>>)

\* a caller of the base behaviour has nothing more to do; the timeout it
\* passed stays what it was
Return(obj) ==
    [pc |-> "returned", ppc |-> "idle", timeout |-> timeout,
     payload |-> None, events |-> <<>>]

\* what the caller of the poll of `step` does once the poll returned
Continue(step, obj) ==
    CASE step = "_check_service_staked" -> AfterCheckServiceStaked(obj)
      [] step = "_get_next_checkpoint" -> AfterGetNextCheckpoint(obj)
      [] step = "_build_checkpoint_tx" -> AfterBuildCheckpointTx(obj)
      [] step = "_get_safe_tx_hash" -> AfterGetSafeTxHash(obj)
      [] OTHER -> Return(obj)

\* One turn of wait_for_condition_with_sleep: the condition was invoked, took
\* d, logged `events` and ended as c (contract_interact's result); on break
\* the caller goes on as `next` until its next suspension.
Turn(c, d, events, next) ==
    LET t == now + d
        out == Outcome(c.ok, timeout, deadline, t)
    IN  /\ now' = t
        /\ last_step' = d
        /\ self' = c.self
        /\ UNCHANGED <<mech_vars, strategy_vars, params, synced_timestamp>>
        /\ IF c.raised # "none"
           THEN /\ raised' = c.raised
                /\ ppc' = "idle"
                /\ trace' = trace \o events
                /\ UNCHANGED <<pc, timeout, deadline, started, fails, payload>>
           ELSE CASE out = "break" ->
                       /\ pc' = next.pc
                       /\ ppc' = next.ppc
                       /\ timeout' = next.timeout
                       /\ deadline' = Deadline(t, next.timeout)
                       /\ started' = t
                       /\ payload' = next.payload
                       /\ trace' = trace \o events \o next.events
                       /\ UNCHANGED <<fails, raised>>
                  [] out = "raise" ->
                       /\ raised' = "TimeoutException"
                       /\ ppc' = "idle"
                       /\ trace' = trace \o events
                       /\ UNCHANGED <<pc, timeout, deadline, started, fails,
                                      payload>>
                  [] out = "sleep" ->
                       /\ fails < MaxFails
                       /\ fails' = fails + 1
                       /\ ppc' = "sleep"
                       /\ trace' = trace \o events
                       /\ UNCHANGED <<pc, timeout, deadline, started, payload,
                                      raised>>

\* a condition that is one remote call: the request, the response, and
\* contract_interact on it
RemoteCondition(target, callable, data_key, placeholder, kwargs, values) ==
    \E response \in Responses(data_key, values), d \in StepTimes :
        LET c == contract_interact(self, response, data_key, placeholder)
        IN  Turn(c, d,
                 <<Call(target, callable, kwargs, Status(response, data_key),
                        Get(response.body, data_key))>>,
                 Continue(pc, c.self))

\* mutant: the reader does not look at the configured service id
Mut_CheckServiceStaked_no_guard ==
    /\ pc = "_check_service_staked" /\ ppc = "cond" /\ raised = "none"
    /\ RemoteCondition(staking_contract_target,
            "get_service_staking_state", "data", "service_staking_state",
            [NoKwargs EXCEPT !.service_id = params.on_chain_service_id],
            StakingStatesOf(StakingContractId))

\* mutant: without a service id the reader reports failure after its warning
Mut_CheckServiceStaked_false_on_absent ==
    /\ pc = "_check_service_staked" /\ ppc = "cond" /\ raised = "none"
    /\ IF params.on_chain_service_id = None
       THEN Turn([ok |-> FALSE, raised |-> "none", self |-> self], 0,
                 <<Event("warning")>>, Continue(pc, self))
       ELSE RemoteCondition(staking_contract_target,
                "get_service_staking_state", "data", "service_staking_state",
                [NoKwargs EXCEPT !.service_id = params.on_chain_service_id],
                StakingStatesOf(StakingContractId))

\* _check_service_staked, polled by async_act (line 451)
CheckServiceStaked ==
    /\ pc = "_check_service_staked" /\ ppc = "cond" /\ raised = "none"
    /\ IF params.on_chain_service_id = None
       THEN Turn([ok |-> TRUE, raised |-> "none", self |-> self], 0,
                 <<Event("warning")>>, Continue(pc, self))
       ELSE RemoteCondition(staking_contract_target,
                "get_service_staking_state", "data", "service_staking_state",
                [NoKwargs EXCEPT !.service_id = params.on_chain_service_id],
                StakingStatesOf(StakingContractId))

\* _get_next_checkpoint, polled by async_act (line 455)
GetNextCheckpoint ==
    /\ pc = "_get_next_checkpoint" /\ ppc = "cond" /\ raised = "none"
    /\ RemoteCondition(staking_contract_target, "get_next_checkpoint_ts",
                       "data", "next_checkpoint", NoKwargs, Timestamps)

\* _build_checkpoint_tx, polled by _prepare_safe_tx (line 438)
BuildCheckpointTx ==
    /\ pc = "_build_checkpoint_tx" /\ ppc = "cond" /\ raised = "none"
    /\ RemoteCondition(staking_contract_target, "build_checkpoint_tx",
                       "data", "checkpoint_data", NoKwargs, CheckpointDatas)

\* _get_safe_tx_hash, polled by _prepare_safe_tx (line 439)
GetSafeTxHash ==
    /\ pc = "_get_safe_tx_hash" /\ ppc = "cond" /\ raised = "none"
    /\ RemoteCondition(safe_target, "get_raw_safe_transaction_hash",
                       "tx_hash", "safe_tx_hash",
                       [NoKwargs EXCEPT
                            !.to_address = Some(params.staking_contract_address),
                            !.value = Some(ETH_PRICE),
                            !.data = Some(self._checkpoint_data)],
                       SafeTxHashes)

\* mutant: _prepare_safe_tx polls its two steps as one condition, so that a
\* retry of the hash derivation starts with the build again
Mut_Sleep_restart ==
    /\ ppc = "sleep" /\ raised = "none"
    /\ now' = now + params.staking_interaction_sleep_time
    /\ ppc' = "cond"
    /\ pc' = IF pc = "_get_safe_tx_hash" THEN "_build_checkpoint_tx" ELSE pc
    /\ trace' = Append(trace, [ev |-> "sleep",
                               secs |-> params.staking_interaction_sleep_time])
    /\ UNCHANGED <<mech_vars, strategy_vars, params, synced_timestamp,
                   self, timeout, deadline,
                   started, last_step, fails, payload, raised>>

\* mutant: the sleep grows with the number of retries
Mut_Sleep_backoff ==
    /\ ppc = "sleep" /\ raised = "none"
    /\ now' = now + params.staking_interaction_sleep_time * fails
    /\ ppc' = "cond"
    /\ trace' = Append(trace,
                   [ev |-> "sleep",
                    secs |-> params.staking_interaction_sleep_time * fails])
    /\ UNCHANGED <<mech_vars, strategy_vars, params, synced_timestamp,
                   self, pc, timeout, deadline,
                   started, last_step, fails, payload, raised>>

\* self.sleep(staking_interaction_sleep_time), then the loop's next turn
Sleep ==
    /\ ppc = "sleep" /\ raised = "none"
    /\ now' = now + params.staking_interaction_sleep_time
    /\ ppc' = "cond"
    /\ trace' = Append(trace, [ev |-> "sleep",
                               secs |-> params.staking_interaction_sleep_time])
    /\ UNCHANGED <<mech_vars, strategy_vars, params, synced_timestamp,
                   self, pc, timeout, deadline,
                   started, last_step, fails, payload, raised>>

\* mutant: the payload is submitted and the behaviour stays where it is
Mut_SendA2ATransaction_again ==
    /\ pc = "send_a2a_transaction" /\ raised = "none"
    /\ trace' = Append(trace, [ev |-> "submit", payload |-> Val(payload)])
    /\ UNCHANGED <<mech_vars, strategy_vars, params, synced_timestamp,
                   self, pc, ppc, timeout, deadline,
                   now, started, last_step, fails, payload, raised>>

\* send_a2a_transaction(payload)
SendA2ATransaction ==
    /\ pc = "send_a2a_transaction" /\ raised = "none"
    /\ pc' = "wait_until_round_end"
    /\ trace' = Append(trace, [ev |-> "submit", payload |-> Val(payload)])
    /\ UNCHANGED <<mech_vars, strategy_vars, params, synced_timestamp,
                   self, ppc, timeout, deadline, now,
                   started, last_step, fails, payload, raised>>

\* wait_until_round_end() returns, then set_done()
WaitUntilRoundEnd ==
    /\ pc = "wait_until_round_end" /\ raised = "none"
    /\ pc' = "done"
    /\ trace' = trace \o <<Event("round_end"), Event("set_done")>>
    /\ UNCHANGED <<mech_vars, strategy_vars, params, synced_timestamp,
                   self, ppc, timeout, deadline, now,
                   started, last_step, fails, payload, raised>>

Configurations ==
    [on_chain_service_id : ServiceIds,
     mech_activity_checker_contract : {NULL_ADDRESS, ActivityCheckerAddress},
     staking_contract_address : {StakingAddress},
     staking_interaction_sleep_time : {SleepTime}]

\* neither the Mech wrapper nor a strategy is called
NoMechCall == tx_receipt = <<>> /\ event_name = "" /\ mech_result = None
NoStrategyRun == strategy = "" /\ run_kwargs = <<>> /\ strategy_result = None

\* a new CallCheckpointBehaviour whose async_act enters its first poll
Init ==
    /\ NoMechCall /\ NoStrategyRun
    /\ params \in Configurations
    /\ synced_timestamp \in Timestamps
    /\ self = InitSelf
    /\ pc = "_check_service_staked"
    /\ ppc = "cond"
    /\ timeout = None
    /\ now = 0
    /\ deadline = Deadline(0, None)
    /\ started = 0
    /\ last_step = 0
    /\ fails = 0
    /\ trace = <<>>
    /\ payload = None
    /\ raised = "none"

Next ==
    \/ CheckServiceStaked
    \/ GetNextCheckpoint
    \/ BuildCheckpointTx
    \/ GetSafeTxHash
    \/ Sleep
    \/ SendA2ATransaction
    \/ WaitUntilRoundEnd

Spec == Init /\ [][Next]_vars

----------------------------------------------------------------------------
(* A caller of the base behaviour: one poll of one of its readers *)

BaseReaders ==
    {"_get_ts_checkpoint", "_get_liveness_period", "_get_liveness_ratio",
     "_get_service_info"}

ServiceInfos == {<<1, 2, <<3, 4>>>>}

\* _get_ts_checkpoint
GetTsCheckpoint ==
    /\ pc = "_get_ts_checkpoint" /\ ppc = "cond" /\ raised = "none"
    /\ RemoteCondition(staking_contract_target, "ts_checkpoint", "data",
                       "ts_checkpoint", NoKwargs, Timestamps)

\* _get_liveness_period
GetLivenessPeriod ==
    /\ pc = "_get_liveness_period" /\ ppc = "cond" /\ raised = "none"
    /\ RemoteCondition(staking_contract_target, "get_liveness_period", "data",
                       "liveness_period", NoKwargs, Ratios)

\* _get_liveness_ratio
GetLivenessRatio ==
    /\ pc = "_get_liveness_ratio" /\ ppc = "cond" /\ raised = "none"
    /\ RemoteCondition(liveness_ratio_target, "liveness_ratio", "data",
                       "liveness_ratio", NoKwargs, Ratios)

\* _get_service_info
GetServiceInfo ==
    /\ pc = "_get_service_info" /\ ppc = "cond" /\ raised = "none"
    /\ IF params.on_chain_service_id = None
       THEN Turn([ok |-> TRUE, raised |-> "none", self |-> self], 0,
                 <<Event("warning")>>, Continue(pc, self))
       ELSE RemoteCondition(staking_contract_target, "get_service_info",
                "data", "service_info",
                [NoKwargs EXCEPT !.service_id = params.on_chain_service_id],
                ServiceInfos)

\* the caller enters wait_for_condition_with_sleep(reader, timeout)
InitBase ==
    /\ NoMechCall /\ NoStrategyRun
    /\ params \in Configurations
    /\ synced_timestamp = 0
    /\ self = InitSelf
    /\ pc \in BaseReaders
    /\ ppc = "cond"
    /\ timeout \in Timeouts
    /\ now = 0
    /\ deadline = Deadline(0, timeout)
    /\ started = 0
    /\ last_step = 0
    /\ fails = 0
    /\ trace = <<>>
    /\ payload = None
    /\ raised = "none"

NextBase ==
    \/ GetTsCheckpoint
    \/ GetLivenessPeriod
    \/ GetLivenessRatio
    \/ GetServiceInfo
    \/ Sleep

SpecBase == InitBase /\ [][NextBase]_vars

----------------------------------------------------------------------------
(* Reading the log *)

Events(name) == {i \in 1..Len(trace) : trace[i].ev = name}

\* the calls of a method, and those among them whose response held the field
Calls(callable) ==
    {i \in 1..Len(trace) :
        trace[i].ev = "call" /\ trace[i].callable = callable}

OkCalls(callable) == {i \in Calls(callable) : trace[i].status = "ok"}

\* a payload was built: async_act is at or past send_a2a_transaction
Emitted == payload # None

TxBuilderCalls ==
    Calls("build_checkpoint_tx") \cup Calls("get_raw_safe_transaction_hash")
        \cup Events("pack")

\* the successful staking-state read stored STAKED / EVICTED
ReadStaked ==
    /\ OkCalls("get_service_staking_state") # {}
    /\ self._service_staking_state = STAKED

ReadEvicted ==
    /\ OkCalls("get_service_staking_state") # {}
    /\ self._service_staking_state = EVICTED

ReadNextCheckpoint == OkCalls("get_next_checkpoint_ts") # {}

----------------------------------------------------------------------------
(* Claims *)

\* C1: in an activation that read STAKED and a next checkpoint timestamp
\* <= the synchronized timestamp, the emitted payload comes after exactly one
\* successful build_checkpoint_tx, then exactly one successful hash
\* derivation, then exactly one pack, and carries a non-null transaction
\* whose safe-tx hash has the required length without its prefix, with
\* value 0 and gas 0.
C1_DueEmitsOneTransaction ==
    (Emitted /\ ReadStaked /\ ReadNextCheckpoint
        /\ self._next_checkpoint <= synced_timestamp)
    => /\ Cardinality(OkCalls("build_checkpoint_tx")) = 1
       /\ Cardinality(OkCalls("get_raw_safe_transaction_hash")) = 1
       /\ Cardinality(Events("pack")) = 1
       /\ \A b \in OkCalls("build_checkpoint_tx"),
             h \in OkCalls("get_raw_safe_transaction_hash"),
             p \in Events("pack") :
             /\ b < h /\ h < p
             /\ \A i \in Calls("get_raw_safe_transaction_hash") : b < i
             /\ \A i \in Calls("build_checkpoint_tx") : i <= b
       /\ Val(payload).tx_hex # None
       /\ LET tx == Val(Val(payload).tx_hex)
          IN  /\ Len(tx.safe_tx_hash) = TX_HASH_LENGTH - 2
              /\ tx.ether_value = 0
              /\ tx.safe_tx_gas = 0

\* C1 witness: a due activation (timestamps equal, after a retry) is done
C1_Witness ==
    /\ pc = "done" /\ ReadStaked /\ ReadNextCheckpoint
    /\ self._next_checkpoint = synced_timestamp
    /\ Val(payload).tx_hex # None
    /\ fails > 0

\* C2: in an activation that read STAKED and a next checkpoint timestamp
\* > the synchronized timestamp, no build_checkpoint_tx and no safe-tx-hash
\* call is issued and the emitted payload has a null transaction.
C2_NotDueEmitsNoTransaction ==
    (ReadStaked /\ ReadNextCheckpoint
        /\ self._next_checkpoint > synced_timestamp)
    => /\ TxBuilderCalls = {}
       /\ Emitted
       /\ Val(payload).tx_hex = None

\* C2 witness: a staked, not due activation is done
C2_Witness ==
    /\ pc = "done" /\ ReadStaked /\ ReadNextCheckpoint
    /\ self._next_checkpoint > synced_timestamp

\* C3: in an activation that read EVICTED, no transaction is built (no
\* build_checkpoint_tx call, no hash derivation, no pack) and the emitted
\* payload has a null transaction and the staking state value of EVICTED,
\* whatever the timestamps are.
C3_EvictedEmitsNoTransaction ==
    ReadEvicted
    => /\ TxBuilderCalls = {}
       /\ Emitted
       /\ Val(payload).tx_hex = None
       /\ Val(payload).service_staking_state = EVICTED.value

\* C3 witness: an evicted service whose checkpoint would be due is done
C3_Witness ==
    /\ pc = "done" /\ ReadEvicted
    /\ self._next_checkpoint <= synced_timestamp

\* C4: without a configured on-chain service id the activation never fails
\* and the payload it emits has the staking state value of UNSTAKED and a
\* null transaction, whatever the contract variant and the timestamps are.
C4_NoServiceIdEmitsUnstaked ==
    params.on_chain_service_id = None
    => /\ raised = "none"
       /\ pc # "_check_service_staked" =>
              /\ Emitted
              /\ Val(payload).service_staking_state = UNSTAKED.value
              /\ Val(payload).tx_hex = None

\* C4 witness: an activation without a service id is done, under either
\* contract variant
C4_Witness ==
    /\ params.on_chain_service_id = None
    /\ params.mech_activity_checker_contract # NULL_ADDRESS
    /\ pc = "done"

\* C5: once the hash derivation returned a hash whose length without the
\* prefix is not the required one, the activation has failed with
\* ValueError, nothing follows that call (no sleep, no further call, no
\* submission) and no payload exists.
C5_WrongHashLengthIsFatal ==
    \A i \in OkCalls("get_raw_safe_transaction_hash") :
        LET safe_hash == Val(trace[i].returned)
        IN  Len(SubSeq(safe_hash, 3, Len(safe_hash))) # TX_HASH_LENGTH - 2
            => /\ raised = "ValueError"
               /\ i = Len(trace)
               /\ ~Emitted
               /\ Events("submit") = {}

\* C5 witness: an activation failed on a hash that is too long, after a
\* soft failure of the same call had been retried
C5_Witness ==
    /\ raised = "ValueError"
    /\ Len(Val(trace[Len(trace)].returned)) > TX_HASH_LENGTH
    /\ \E i \in Calls("get_raw_safe_transaction_hash") :
           trace[i].status # "ok"

\* C6: an activation submits at most one payload; when it is done it has
\* submitted exactly one, the one it built, then seen the round end, then
\* set itself done.
C6_OnePayloadThenRoundEnd ==
    /\ Cardinality(Events("submit")) <= 1
    /\ \A i \in Events("submit") : Emitted /\ trace[i].payload = Val(payload)
    /\ pc = "done" =>
           /\ Cardinality(Events("submit")) = 1
           /\ Cardinality(Events("round_end")) = 1
           /\ Cardinality(Events("set_done")) = 1
           /\ \A s \in Events("submit"), r \in Events("round_end"),
                 d \in Events("set_done") : s < r /\ r < d
    /\ pc # "done" => Events("round_end") \cup Events("set_done") = {}

\* C6 witness: an activation is done
C6_Witness == pc = "done" /\ Events("submit") # {}

\* the events of a condition that returned False / True
FalseTurns ==
    {i \in 1..Len(trace) : trace[i].ev = "call" /\ trace[i].status # "ok"}

TrueTurns ==
    {i \in 1..Len(trace) :
        \/ trace[i].ev = "call" /\ trace[i].status = "ok"
        \/ trace[i].ev = "warning"}

\* local time since the current poll was called
Elapsed == now - started

\* C7: a poll without a timeout never raises TimeoutException: every false
\* result of the condition is followed by a sleep and every sleep by another
\* invocation of the condition, and the poll has returned only right after
\* an invocation that returned true.
C7_NoTimeoutRetriesUntilTrue ==
    timeout = None
    => /\ raised # "TimeoutException"
       /\ \A i \in FalseTurns :
            /\ i = Len(trace) => ppc = "sleep" /\ pc \in BaseReaders
            /\ i < Len(trace) => trace[i + 1].ev = "sleep"
       /\ \A i \in Events("sleep") :
            /\ i = Len(trace) => ppc = "cond" /\ pc \in BaseReaders
            /\ i < Len(trace) => trace[i + 1].ev = "call"
       /\ Cardinality(FalseTurns) = fails
       /\ pc = "returned" => Len(trace) \in TrueTurns

\* C7 witness: a poll without a timeout returned after two false results
C7_Witness ==
    /\ timeout = None /\ pc = "returned"
    /\ Cardinality(FalseTurns) >= 2
    /\ now > MaxTimeout

\* C8 as stated: a timeout-bounded poll raises TimeoutException no earlier
\* than T after the call and earlier than T + one sleep interval + epsilon.
C8_TimeoutWithinOneSleep ==
    raised = "TimeoutException"
    => /\ Elapsed >= Val(timeout)
       /\ Elapsed < Val(timeout) + params.staking_interaction_sleep_time
                       + Epsilon

\* C8 amended: a timeout-bounded poll that ended without a true result
\* raised TimeoutException, no earlier than T after the call and earlier
\* than T + one sleep interval + the duration of the condition's last
\* invocation + epsilon; while it runs, it sleeps no later than T and invokes
\* the condition no later than T + one sleep interval after the call.
C8_TimeoutWithinSleepAndStep ==
    timeout # None
    => /\ raised = "TimeoutException"
          => /\ TrueTurns = {}
             /\ Elapsed >= Val(timeout)
             /\ Elapsed < Val(timeout) + params.staking_interaction_sleep_time
                             + last_step + Epsilon
       /\ (ppc = "idle" /\ TrueTurns = {}) => raised = "TimeoutException"
       /\ ppc = "sleep" => Elapsed <= Val(timeout)
       /\ ppc = "cond"
          => Elapsed <= Val(timeout) + params.staking_interaction_sleep_time

\* C8 witness: the fault was raised after a sleep and a slow invocation,
\* later than T + one sleep interval + epsilon
C8_Witness ==
    /\ raised = "TimeoutException"
    /\ Events("sleep") # {}
    /\ last_step = MaxStepTime
    /\ Elapsed >= Val(timeout) + params.staking_interaction_sleep_time
                      + Epsilon

\* C9: a response that reports no success or lacks the field makes the
\* condition return false without an exception: the activation is not ended
\* by it, sleeps next, and then issues the same call again.
C9_SoftFailureIsRetried ==
    /\ raised \in {"none", "ValueError"}
    /\ \A i \in 1..Len(trace) :
        (trace[i].ev = "call" /\ trace[i].status \in {"error", "missing"})
        => /\ i = Len(trace) => raised = "none" /\ ppc = "sleep"
           /\ i < Len(trace) => trace[i + 1].ev = "sleep"
           /\ i + 1 = Len(trace) => raised = "none" /\ ppc = "cond"
           /\ i + 1 < Len(trace) =>
                  /\ trace[i + 2].ev = "call"
                  /\ trace[i + 2].callable = trace[i].callable
                  /\ trace[i + 2].contract_id = trace[i].contract_id
                  /\ trace[i + 2].address = trace[i].address
                  /\ trace[i + 2].kwargs = trace[i].kwargs

\* C9 witness: an activation is done after a failed call and a response
\* without the field were both retried
C9_Witness ==
    /\ pc = "done"
    /\ \E i, j \in 1..Len(trace) :
          /\ trace[i].ev = "call" /\ trace[i].status = "error"
          /\ trace[j].ev = "call" /\ trace[j].status = "missing"

\* C10: every liveness_ratio call goes to the activity checker contract at
\* the activity checker address when that address is not the null address,
\* and to the staking contract at the staking address when it is.
C10_LivenessRatioTarget ==
    \A i \in Calls("liveness_ratio") :
        IF params.mech_activity_checker_contract # NULL_ADDRESS
        THEN /\ trace[i].contract_id = MechActivityContract
             /\ trace[i].address = params.mech_activity_checker_contract
        ELSE /\ trace[i].contract_id \in
                    {ServiceStakingTokenContract, StakingTokenContract}
             /\ trace[i].address = params.staking_contract_address

\* C10 witness: liveness_ratio was read from the activity checker
C10_Witness ==
    /\ params.mech_activity_checker_contract # NULL_ADDRESS
    /\ \E i \in Calls("liveness_ratio") :
           trace[i].status = "ok" /\ trace[i].address = ActivityCheckerAddress

\* the callables of the staking contract
StakingCallables ==
    {"get_service_staking_state", "get_next_checkpoint_ts",
     "build_checkpoint_tx", "ts_checkpoint", "get_liveness_period",
     "get_service_info"}

\* C11: every staking-contract call of an activation is issued at the
\* staking address against the v2 staking-token interface when the
\* configured activity-checker address is not the null address, and against
\* the legacy service-staking-token interface when it is; so all calls of an
\* activation use one interface.
C11_OneStakingImplementation ==
    \A i \in 1..Len(trace) :
        (trace[i].ev = "call" /\ trace[i].callable \in StakingCallables)
        => /\ trace[i].address = params.staking_contract_address
           /\ trace[i].contract_id =
                  IF params.mech_activity_checker_contract # NULL_ADDRESS
                  THEN StakingTokenContract
                  ELSE ServiceStakingTokenContract

\* C11 witness: an activation under the v2 configuration issued the three
\* staking-contract calls, one of them twice
C11_Witness ==
    /\ params.mech_activity_checker_contract # NULL_ADDRESS
    /\ Calls("get_service_staking_state") # {}
    /\ Calls("get_next_checkpoint_ts") # {}
    /\ Cardinality(Calls("build_checkpoint_tx")) >= 2

\* C12: the stored staking state is the canonical StakingState of the
\* ordinal the read returned, from whichever enumeration it came, and the
\* payload carries that ordinal; the setter maps equal ordinals of the two
\* enumerations to the same value.
C12_CanonicalStakingState ==
    /\ \A v \in 0..2 :
           service_staking_state_setter(StakingTokenStakingState(v))
               = service_staking_state_setter(StakingState(v))
    /\ self._service_staking_state.cls = StakingStateCls
    /\ \A i \in OkCalls("get_service_staking_state") :
           /\ self._service_staking_state
                  = StakingState(Val(trace[i].returned).value)
           /\ Emitted => Val(payload).service_staking_state
                             = Val(trace[i].returned).value

\* C12 witness: a state of the v2 enumeration was read as STAKED and the
\* activation went on to build the transaction
C12_Witness ==
    /\ pc = "done"
    /\ Val(payload).tx_hex # None
    /\ \E i \in OkCalls("get_service_staking_state") :
           Val(trace[i].returned) = StakingTokenStakingState(1)

\* C13: a next-checkpoint read is issued only after a successful
\* staking-state read, a build_checkpoint_tx call only after a successful
\* next-checkpoint read, a hash derivation only after a successful build,
\* the pack only after a successful derivation, and the submission only
\* after every step of the branch taken.
C13_CausalOrder ==
    /\ \A i \in Calls("get_next_checkpoint_ts") :
           \E j \in OkCalls("get_service_staking_state") : j < i
    /\ \A i \in Calls("build_checkpoint_tx") :
           \E j \in OkCalls("get_next_checkpoint_ts") : j < i
    /\ \A i \in Calls("get_raw_safe_transaction_hash") :
           \E j \in OkCalls("build_checkpoint_tx") : j < i
    /\ \A i \in Events("pack") :
           \E j \in OkCalls("get_raw_safe_transaction_hash") : j < i
    /\ \A s \in Events("submit") :
           /\ params.on_chain_service_id # None
              => \E j \in OkCalls("get_service_staking_state") : j < s
           /\ self._service_staking_state = STAKED
              => \E j \in OkCalls("get_next_checkpoint_ts") : j < s
           /\ (self._service_staking_state = STAKED
                  /\ self._next_checkpoint <= synced_timestamp)
              => \E j \in Events("pack") : j < s
           /\ \A i \in 1..Len(trace) : trace[i].ev = "call" => i < s

\* C13 witness: a due activation submitted after all four reads, one of
\* which had failed first
C13_Witness ==
    /\ Events("submit") # {}
    /\ Events("pack") # {}
    /\ fails > 0

\* what the payload must be, from the configuration, the synchronized
\* timestamp and the values of the successful reads alone
ExpectedStakingState ==
    IF OkCalls("get_service_staking_state") = {} THEN 0
    ELSE Val(trace[CHOOSE i \in OkCalls("get_service_staking_state") : TRUE]
                 .returned).value

ExpectedDue ==
    /\ ExpectedStakingState = 1
    /\ \E i \in OkCalls("get_next_checkpoint_ts") :
           Val(trace[i].returned) <= synced_timestamp

ExpectedTxHex ==
    IF ExpectedDue
    THEN LET b == CHOOSE i \in OkCalls("build_checkpoint_tx") : TRUE
             h == CHOOSE i \in OkCalls("get_raw_safe_transaction_hash") : TRUE
             safe_hash == Val(trace[h].returned)
         IN  Some([safe_tx_hash |-> SubSeq(safe_hash, 3, Len(safe_hash)),
                   ether_value |-> 0, safe_tx_gas |-> 0,
                   to_address |-> params.staking_contract_address,
                   data |-> Val(trace[b].returned)])
    ELSE None

\* C14: the payload of an activation is determined by the configuration,
\* the synchronized timestamp and the values its successful reads returned:
\* its transaction and staking state value do not depend on the local clock
\* nor on the failures and retries, so two replicas that agree on the former
\* emit the same payload.
C14_PayloadDeterminedByReads ==
    Emitted
    => /\ Val(payload).service_staking_state = ExpectedStakingState
       /\ Val(payload).tx_hex # None <=> ExpectedDue
       /\ Val(payload).tx_hex = ExpectedTxHex

\* C14 witness: a staked activation decided "not due" after retries, at a
\* local time that is past the next checkpoint
C14_Witness ==
    /\ pc = "done" /\ ReadStaked /\ ReadNextCheckpoint
    /\ self._next_checkpoint > synced_timestamp
    /\ now >= self._next_checkpoint
    /\ fails >= 2

----------------------------------------------------------------------------
(* Progress *)

\* The scheduler resumes the suspended behaviour whenever it can go on, and
\* a remote read fails at most MaxFails times before it answers.
SpecLive == Init /\ [][Next]_vars /\ WF_vars(Next)

\* C15: under this fairness every activation eventually submits its
\* payload, in every branch, unless the hash derivation answered a hash of
\* the wrong length (a read that does not succeed and is not retried).
C15_PayloadEventuallySubmitted ==
    <>(Events("submit") # {} \/ raised = "ValueError")

\* C15 witness: a staked activation whose checkpoint is not due has
\* submitted its payload after retries
C15_Witness ==
    /\ Events("submit") # {}
    /\ ReadStaked /\ ReadNextCheckpoint
    /\ self._next_checkpoint > synced_timestamp
    /\ fails = MaxFails

----------------------------------------------------------------------------
(* The behaviour class in either use: an activation, or a poll of a reader *)

InitAll == Init \/ InitBase

NextAll ==
    \/ CheckServiceStaked
    \/ GetNextCheckpoint
    \/ BuildCheckpointTx
    \/ GetSafeTxHash
    \/ GetTsCheckpoint
    \/ GetLivenessPeriod
    \/ GetLivenessRatio
    \/ GetServiceInfo
    \/ Sleep
    \/ SendA2ATransaction
    \/ WaitUntilRoundEnd

SpecAll == InitAll /\ [][NextAll]_vars

\* the steps of an activation
ActivationSteps ==
    {"_check_service_staked", "_get_next_checkpoint", "_build_checkpoint_tx",
     "_get_safe_tx_hash", "send_a2a_transaction", "wait_until_round_end",
     "done"}

\* C16: every poll of an activation is without a timeout and an activation
\* never ends with TimeoutException, however many reads fail; a poll with a
\* timeout whose condition returned false after the deadline has raised
\* TimeoutException, and a raised TimeoutException ended the poll at that
\* invocation: it did not return, nothing followed, no payload exists.
C16_TimeoutOnlyFromBoundedPolls ==
    /\ pc \in ActivationSteps
       => /\ timeout = None
          /\ raised # "TimeoutException"
    /\ (timeout # None /\ Len(trace) \in FalseTurns
           /\ ~deadline.max /\ now > deadline.at)
       => raised = "TimeoutException"
    /\ raised = "TimeoutException"
       => /\ timeout # None
          /\ Len(trace) \in FalseTurns
          /\ now > deadline.at
          /\ ppc = "idle"
          /\ pc \in BaseReaders
          /\ ~Emitted
          /\ Events("submit") = {}

\* C16 witness: an activation is done after as many failed reads as the
\* model allows, at a local time past every timeout
C16_Witness ==
    /\ pc = "done"
    /\ fails = MaxFails
    /\ now > MaxTimeout
    /\ timeout = None

\* C17: the packed transaction is made of the derived hash without its
\* prefix, value 0, safe gas 0, the staking contract address and the call
\* data that the one successful build_checkpoint_tx call returned; every
\* hash-derivation call was given that call data, the staking contract
\* address as to_address and value 0.
C17_PackedFromBuildAndHash ==
    /\ \A i \in Calls("get_raw_safe_transaction_hash") :
           \E b \in OkCalls("build_checkpoint_tx") :
               /\ b < i
               /\ trace[i].kwargs =
                      [NoKwargs EXCEPT
                           !.to_address = Some(params.staking_contract_address),
                           !.value = Some(0),
                           !.data = trace[b].returned]
               /\ trace[i].contract_id = GnosisSafeContract
               /\ trace[i].address = SafeAddress
    /\ (Emitted /\ Val(payload).tx_hex # None)
       => \E b \in OkCalls("build_checkpoint_tx"),
             h \in OkCalls("get_raw_safe_transaction_hash") :
              LET safe_hash == Val(trace[h].returned)
              IN  /\ OkCalls("build_checkpoint_tx") = {b}
                  /\ OkCalls("get_raw_safe_transaction_hash") = {h}
                  /\ Val(Val(payload).tx_hex) =
                         [safe_tx_hash |-> SubSeq(safe_hash, 3, Len(safe_hash)),
                          ether_value |-> 0,
                          safe_tx_gas |-> 0,
                          to_address |-> params.staking_contract_address,
                          data |-> Val(trace[b].returned)]

\* C17 witness: a transaction was packed from the second call data and the
\* second hash, after the derivation had failed once
C17_Witness ==
    /\ Emitted
    /\ Val(payload).tx_hex # None
    /\ Val(Val(payload).tx_hex).data = "checkpoint()#2"
    /\ Val(Val(payload).tx_hex).safe_tx_hash[1] = "b"
    /\ \E i \in Calls("get_raw_safe_transaction_hash") :
           trace[i].status # "ok"

\* C18: an invocation of the condition that returned false, short of a
\* TimeoutException, is followed by exactly one sleep of the configured
\* interval and then by the next invocation; every sleep follows such an
\* invocation and has that same interval; no sleep follows an invocation
\* that returned true.
C18_OneFixedSleepPerRetry ==
    /\ \A i \in FalseTurns :
           /\ i = Len(trace)
              => \/ ppc = "sleep" /\ raised = "none"
                 \/ raised = "TimeoutException"
           /\ i < Len(trace)
              => /\ trace[i + 1].ev = "sleep"
                 /\ trace[i + 1].secs = params.staking_interaction_sleep_time
           /\ i + 1 < Len(trace) => trace[i + 2].ev = "call"
    /\ \A i \in Events("sleep") :
           /\ i > 1
           /\ (i - 1) \in FalseTurns
           /\ trace[i].secs = params.staking_interaction_sleep_time
    /\ \A i \in TrueTurns :
           /\ i = Len(trace) => ppc # "sleep"
           /\ i < Len(trace) => trace[i + 1].ev # "sleep"

\* C18 witness: two retries, each after one sleep, then a true result
C18_Witness ==
    /\ Cardinality(Events("sleep")) = 2
    /\ Len(trace) \in TrueTurns
    /\ Len(trace) = 5

\* the reads of the schedule and the calls of the transaction builder
ScheduleAndBuilderCalls ==
    Calls("get_next_checkpoint_ts") \cup Calls("build_checkpoint_tx")
        \cup Calls("get_raw_safe_transaction_hash")

\* C19: a get_next_checkpoint_ts, build_checkpoint_tx or
\* get_raw_safe_transaction_hash call is issued only in an activation that
\* read and stored STAKED before, and a payload with a transaction has the
\* staking state value of STAKED and a next checkpoint <= the synchronized
\* timestamp.
C19_ScheduleOnlyWhenStaked ==
    /\ \A i \in ScheduleAndBuilderCalls :
           /\ self._service_staking_state = STAKED
           /\ \E j \in OkCalls("get_service_staking_state") :
                  j < i /\ Val(trace[j].returned).value = 1
    /\ (Emitted /\ Val(payload).tx_hex # None)
       => /\ Val(payload).service_staking_state = 1
          /\ ReadNextCheckpoint
          /\ self._next_checkpoint <= synced_timestamp

\* C19 witness: a staked activation has packed its transaction and is about
\* to submit it
C19_Witness ==
    /\ pc = "send_a2a_transaction"
    /\ Events("pack") # {}
    /\ Val(payload).service_staking_state = 1

\* the attribute behind the placeholder of each call
PlaceholderOf(callable) ==
    CASE callable = "get_service_staking_state" -> "_service_staking_state"
      [] callable = "get_next_checkpoint_ts" -> "_next_checkpoint"
      [] callable = "build_checkpoint_tx" -> "_checkpoint_data"
      [] callable = "get_raw_safe_transaction_hash" -> "_safe_tx_hash"
      [] callable = "ts_checkpoint" -> "_checkpoint_ts"
      [] callable = "get_liveness_period" -> "_liveness_period"
      [] callable = "liveness_ratio" -> "_liveness_ratio"
      [] callable = "get_service_info" -> "_service_info"

\* C20: a step whose call failed (no success, or no field) leaves every
\* attribute of the instance as it was; an attribute changes only in a step
\* whose call returned the field and raised nothing, and then it is the
\* attribute behind that call's placeholder.
C20_FailedReadWritesNothing ==
    [][ LET n == Len(trace) IN
        /\ (Len(trace') > n /\ trace'[n + 1].ev = "call"
               /\ trace'[n + 1].status # "ok")
           => self' = self
        /\ self' # self
           => /\ Len(trace') > n
              /\ trace'[n + 1].ev = "call"
              /\ trace'[n + 1].status = "ok"
              /\ raised' = "none"
              /\ \A f \in DOMAIN self :
                     self'[f] # self[f]
                     => f = PlaceholderOf(trace'[n + 1].callable)
      ]_vars

\* C20 witness: the hash derivation has just failed and the state, the next
\* checkpoint and the call data read before it are still stored
C20_Witness ==
    /\ pc = "_get_safe_tx_hash" /\ ppc = "sleep"
    /\ Len(trace) \in FalseTurns
    /\ self._service_staking_state = STAKED
    /\ self._next_checkpoint = 1
    /\ self._checkpoint_data = "checkpoint()#2"
    /\ self._safe_tx_hash = <<>>

----------------------------------------------------------------------------
(* The Mech contract wrapper (contracts/mech/contract.py) *)

\* largest number of logs in a receipt
MaxLogs == 2

\* no behaviour runs while the wrapper or a strategy is called
NoBehaviour ==
    /\ params = [on_chain_service_id |-> None,
                 mech_activity_checker_contract |-> NULL_ADDRESS,
                 staking_contract_address |-> StakingAddress,
                 staking_interaction_sleep_time |-> SleepTime]
    /\ synced_timestamp = 0
    /\ self = InitSelf
    /\ pc = "done"
    /\ ppc = "idle"
    /\ timeout = None
    /\ now = 0
    /\ deadline = Deadline(0, None)
    /\ started = 0
    /\ last_step = 0
    /\ fails = 0
    /\ trace = <<>>
    /\ payload = None
    /\ raised = "none"

\* the events of the Mech contract that the wrapper decodes
EventNames == {"Request", "Deliver"}

\* *args of the two callers of _process_event
ExpectedKeys == <<"requestId", "data">>

RequestIds == {1, 2}

\* the args of a decoded log: the sender, and the request id and the data
\* when the log has them
EventArgs ==
    {[k \in {"sender"} \cup K |->
         CASE k = "sender" -> 5
           [] k = "requestId" -> id
           [] k = "data" -> 100] :
     K \in SUBSET {"requestId", "data"}, id \in RequestIds}

\* a decoded log, with or without its "args"
Logs == [event : EventNames, args : {None} \cup {Some(a) : a \in EventArgs}]

Receipts == UNION {[1..n -> Logs] : n \in 0..MaxLogs}

\* event_method().processReceipt(receipt): the logs of the receipt that are
\* events of that name, decoded, in their order
processReceipt(name, receipt) ==
    LET matches(log) == log.event = name
    IN  SelectSeq(receipt, matches)

\* lines 91-93: the second operand of `or` is a generator expression, an
\* object whose truth value is True whatever it would yield
expected_key_missing(event_args, args) == TRUE

\* Mech._process_event, after the receipt was fetched
_process_event(receipt, name, args) ==
    LET logs == processReceipt(name, receipt)
        n_logs == Len(logs)
    IN  IF n_logs # 1
        THEN [raised |-> "none",
              returned |-> [error |-> "a single event was expected"]]
        ELSE LET log == logs[Len(logs)]
                 event_args == log.args
             IN  IF event_args = None \/ expected_key_missing(event_args, args)
                 THEN [raised |-> "none",
                       returned |->
                           [error |-> "log does not match the expected format"]]
                 ELSE IF \E i \in 1..Len(args) :
                             args[i] \notin DOMAIN Val(event_args)
                 THEN [raised |-> "KeyError", returned |-> [error |-> ""]]
                 ELSE [raised |-> "none",
                       returned |->
                           [arg_name \in {args[i] : i \in 1..Len(args)} |->
                                Val(event_args)[arg_name]]]

\* Mech.process_request_event
ProcessRequestEvent ==
    /\ mech_result = None
    /\ event_name' = "Request"
    /\ mech_result' = Some(_process_event(tx_receipt, "Request", ExpectedKeys))
    /\ UNCHANGED <<behaviour_vars, strategy_vars, tx_receipt>>

\* Mech.process_deliver_event
ProcessDeliverEvent ==
    /\ mech_result = None
    /\ event_name' = "Deliver"
    /\ mech_result' = Some(_process_event(tx_receipt, "Deliver", ExpectedKeys))
    /\ UNCHANGED <<behaviour_vars, strategy_vars, tx_receipt>>

\* a receipt, before one of the two methods is called on it
InitMech ==
    /\ NoBehaviour /\ NoStrategyRun
    /\ tx_receipt \in Receipts
    /\ event_name = ""
    /\ mech_result = None

NextMech ==
    \/ ProcessRequestEvent
    \/ ProcessDeliverEvent

SpecMech == InitMech /\ [][NextMech]_vars

\* the logs of the receipt that are events of the name asked for
MatchingLogs ==
    LET named(log) == log.event = event_name
    IN  SelectSeq(tx_receipt, named)

\* C24: process_request_event and process_deliver_event return the
\* requestId and the data of the event when the receipt holds exactly one
\* event of that name whose args have both keys, and return an error
\* dictionary when it holds none or more than one, or the args lack a key.
C24_ProcessEventReturnsArgs ==
    mech_result # None
    => LET r == Val(mech_result)
       IN  /\ r.raised = "none"
           /\ IF /\ Len(MatchingLogs) = 1
                 /\ MatchingLogs[1].args # None
                 /\ {"requestId", "data"}
                        \subseteq DOMAIN Val(MatchingLogs[1].args)
              THEN /\ DOMAIN r.returned = {"requestId", "data"}
                   /\ r.returned["requestId"]
                          = Val(MatchingLogs[1].args)["requestId"]
                   /\ r.returned["data"] = Val(MatchingLogs[1].args)["data"]
              ELSE DOMAIN r.returned = {"error"}

----------------------------------------------------------------------------
(* The strategies (customs/risk_adjusted_bet_amount and                     *)
(* customs/risk_adjusted_position_size). Amounts of wei are counted in      *)
(* units of 10^17 wei; the numbers of the position size are counted in      *)
(* tenths. A keyword argument that is given is Some(value), where the       *)
(* value is None or Some(number).                                           *)

\* largest bankroll, in units of 10^17 wei
MaxWei == 9

\* 10**18 wei, in units of 10^17 wei
WeiPerNative == 10

\* DEFAULT_MAX_BET = 8e17, in units of 10^17 wei
DEFAULT_MAX_BET == 8

BetAmount_REQUIRED_FIELDS ==
    {"bet_kelly_fraction", "bankroll", "win_probability",
     "selected_type_tokens_in_pool", "other_tokens_in_pool", "bet_fee",
     "floor_balance", "risk_tolerance"}

BetAmount_OPTIONAL_FIELDS == {"max_bet"}

BetAmount_ALL_FIELDS == BetAmount_REQUIRED_FIELDS \cup BetAmount_OPTIONAL_FIELDS

\* kwargs.get(field, None) is None
IsMissing(kw, field) == field \notin DOMAIN kw \/ kw[field] = None

\* check_missing_fields: the required fields that are absent or None (a
\* list in the order of iteration of the frozenset; its members are modelled)
BetAmount_check_missing_fields(kw) ==
    {field \in BetAmount_REQUIRED_FIELDS : IsMissing(kw, field)}

\* mutant: every field is kept
Mut_BetAmount_remove_irrelevant_fields_keep(kw) == kw

\* remove_irrelevant_fields
BetAmount_remove_irrelevant_fields(kw) ==
    [key \in DOMAIN kw \cap BetAmount_ALL_FIELDS |-> kw[key]]

\* wei_to_native: wei / 10**18, as a fraction
wei_to_native(wei) == [num |-> wei, den |-> WeiPerNative]

\* calculate_risk_adjusted_bet_amount: with a positive adjusted bankroll it
\* calls calculate_kelly_bet_amount_no_conf, a name that the module neither
\* defines nor imports
calculate_risk_adjusted_bet_amount(selected_type_tokens_in_pool, other_tokens_in_pool, win_probability, bankroll, risk_tolerance, bet_fee) ==
    LET bankroll_adjusted == bankroll * risk_tolerance
        fee_fraction == [num |-> WeiPerNative - wei_to_native(bet_fee).num,
                         den |-> WeiPerNative]
    IN  IF bankroll_adjusted <= 0
        THEN [raised |-> "none", returned |-> 0]
        ELSE [raised |-> "NameError", returned |-> 0]

min(a, b) == IF b < a THEN b ELSE a

\* get_bet_amount_risk_adjusted(**kw): the binding of the keyword arguments,
\* then the body
get_bet_amount_risk_adjusted(kw) ==
    IF \/ ~(DOMAIN kw \subseteq BetAmount_ALL_FIELDS)
       \/ ~(BetAmount_REQUIRED_FIELDS \subseteq DOMAIN kw)
    THEN [raised |-> "TypeError", returned |-> [error |-> <<>>]]
    ELSE LET max_bet == IF "max_bet" \in DOMAIN kw THEN kw["max_bet"]
                        ELSE Some(DEFAULT_MAX_BET)
             bankroll == Val(kw["bankroll"])
             floor_balance == Val(kw["floor_balance"])
         IN  IF max_bet = None
             THEN [raised |-> "TypeError", returned |-> [error |-> <<>>]]
             ELSE
             LET bankroll_adj == min(bankroll - floor_balance, Val(max_bet))
                 info == <<[msg |-> "Adjusted bankroll",
                            xdai |-> wei_to_native(bankroll_adj)]>>
             IN  IF bankroll_adj <= 0
                 THEN [raised |-> "none",
                       returned |->
                           [bet_amount |-> 0, info |-> info,
                            error |-> <<"Bankroll is less than the floor balance",
                                        "Set bet amount to 0",
                                        "Top up safe with DAI or wait for redeeming"
                                      >>]]
                 ELSE
                 LET c == calculate_risk_adjusted_bet_amount(
                              Val(kw["selected_type_tokens_in_pool"]),
                              Val(kw["other_tokens_in_pool"]),
                              Val(kw["win_probability"]), bankroll_adj,
                              Val(kw["risk_tolerance"]), Val(kw["bet_fee"]))
                     bet_amount == c.returned
                 IN  IF c.raised # "none"
                     THEN [raised |-> c.raised, returned |-> [error |-> <<>>]]
                     ELSE IF bet_amount < 0
                     THEN [raised |-> "none",
                           returned |->
                               [bet_amount |-> 0,
                                info |-> Append(info,
                                    [msg |-> "Invalid bet amount",
                                     xdai |-> wei_to_native(bet_amount)]),
                                error |-> <<>>]]
                     ELSE [raised |-> "none",
                           returned |->
                               [bet_amount |-> bet_amount,
                                info |-> info \o
                                    <<[msg |-> "Risk-adjusted bet amount",
                                       xdai |-> wei_to_native(bet_amount)],
                                      [msg |-> "Bet kelly fraction",
                                       xdai |-> wei_to_native(
                                           Val(kw["bet_kelly_fraction"]))]>>,
                                error |-> <<>>]]

\* the result of a run that lacks required fields
MissingError(missing) ==
    [raised |-> "none",
     returned |-> [error |-> <<[msg |-> "Required kwargs were not provided",
                                missing |-> missing]>>]]

\* run of risk_adjusted_bet_amount
BetAmount_run(kw) ==
    LET missing == BetAmount_check_missing_fields(kw)
    IN  IF Cardinality(missing) > 0
        THEN MissingError(missing)
        ELSE get_bet_amount_risk_adjusted(
                 BetAmount_remove_irrelevant_fields(kw))

PositionSize_REQUIRED_FIELDS ==
    {"confidence", "risk_tolerance", "base_position_size"}

\* check_missing_fields of risk_adjusted_position_size
PositionSize_check_missing_fields(kw) ==
    {field \in PositionSize_REQUIRED_FIELDS : IsMissing(kw, field)}

\* remove_irrelevant_fields of risk_adjusted_position_size
PositionSize_remove_irrelevant_fields(kw) ==
    [key \in DOMAIN kw \cap PositionSize_REQUIRED_FIELDS |-> kw[key]]

\* round(n / d) to the nearest integer, a tie to the even one
RoundHalfEven(n, d) ==
    LET q == n \div d
        r == n % d
    IN  IF 2 * r < d THEN q
        ELSE IF 2 * r > d THEN q + 1
        ELSE IF q % 2 = 0 THEN q ELSE q + 1

\* risk_adjusted_position_size(**kw): the product of three numbers of tenths
\* is a number of thousandths; round(_, 2) makes it a number of hundredths
risk_adjusted_position_size(kw) ==
    IF DOMAIN kw # PositionSize_REQUIRED_FIELDS
    THEN [raised |-> "TypeError", returned |-> [error |-> <<>>]]
    ELSE LET adjusted_position_size ==
                 Val(kw["base_position_size"])
                     * (Val(kw["confidence"]) * Val(kw["risk_tolerance"]))
         IN  [raised |-> "none",
              returned |->
                  [adjusted_position_size |->
                       [num |-> RoundHalfEven(adjusted_position_size, 10),
                        den |-> 100]]]

\* run of risk_adjusted_position_size
PositionSize_run(kw) ==
    LET missing == PositionSize_check_missing_fields(kw)
    IN  IF Cardinality(missing) > 0
        THEN MissingError(missing)
        ELSE risk_adjusted_position_size(
                 PositionSize_remove_irrelevant_fields(kw))

\* how a keyword argument comes: not at all, as None, or as a number
Absent == None
GivenNone == Some(None)
Given(numbers) == {Some(Some(v)) : v \in numbers}

\* the keyword arguments that are given, with their values
ToKwargs(rec) ==
    [k \in {f \in DOMAIN rec : rec[f] # Absent} |-> Val(rec[k])]

Amounts == {0, 1, MaxWei}

\* keyword arguments of a call of run of risk_adjusted_bet_amount;
\* "confidence" is no field of that strategy
BetAmount_Kwargs ==
    {ToKwargs(rec) :
       rec \in [bankroll : {Absent, GivenNone} \cup Given(Amounts),
                floor_balance : {Absent} \cup Given({0, 1}),
                risk_tolerance : {Absent, GivenNone} \cup Given({-1, 0, 1}),
                max_bet : {Absent, GivenNone} \cup Given({0, 1}),
                bet_kelly_fraction : {Absent} \cup Given({1}),
                win_probability : {GivenNone} \cup Given({1}),
                selected_type_tokens_in_pool : Given({1}),
                other_tokens_in_pool : {Absent} \cup Given({1}),
                bet_fee : Given({1}),
                confidence : {Absent} \cup Given({1})]}

\* keyword arguments of a call of run of risk_adjusted_position_size, the
\* numbers in tenths; "bankroll" is no field of that strategy
PositionSize_Kwargs ==
    {ToKwargs(rec) :
       rec \in [confidence : {Absent, GivenNone} \cup Given({0, 5, 15}),
                risk_tolerance : {Absent, GivenNone} \cup Given({0, 5, 15}),
                base_position_size :
                    {Absent, GivenNone} \cup Given({0, 5, 15}),
                bankroll : {Absent} \cup Given({1})]}

\* run(**kwargs) of risk_adjusted_bet_amount
RunBetAmount ==
    /\ strategy = "risk_adjusted_bet_amount"
    /\ strategy_result = None
    /\ strategy_result' = Some(BetAmount_run(run_kwargs))
    /\ UNCHANGED <<behaviour_vars, mech_vars, strategy, run_kwargs>>

\* run(**kwargs) of risk_adjusted_position_size
RunPositionSize ==
    /\ strategy = "risk_adjusted_position_size"
    /\ strategy_result = None
    /\ strategy_result' = Some(PositionSize_run(run_kwargs))
    /\ UNCHANGED <<behaviour_vars, mech_vars, strategy, run_kwargs>>

\* a strategy and the keyword arguments it is about to be run with
InitStrategy ==
    /\ NoBehaviour /\ NoMechCall
    /\ \/ /\ strategy = "risk_adjusted_bet_amount"
          /\ run_kwargs \in BetAmount_Kwargs
       \/ /\ strategy = "risk_adjusted_position_size"
          /\ run_kwargs \in PositionSize_Kwargs
    /\ strategy_result = None

NextStrategy ==
    \/ RunBetAmount
    \/ RunPositionSize

SpecStrategy == InitStrategy /\ [][NextStrategy]_vars

\* the required fields of `fields` that the call lacks
MissingOf(fields) ==
    {f \in fields : f \notin DOMAIN run_kwargs \/ run_kwargs[f] = None}

\* max_bet as the strategy takes it: the given one or the default
GivenMaxBet ==
    IF "max_bet" \in DOMAIN run_kwargs /\ run_kwargs["max_bet"] # None
    THEN Val(run_kwargs["max_bet"])
    ELSE DEFAULT_MAX_BET

\* C25: a run of the risk-adjusted bet strategy with all required fields
\* present returns a result whose bet_amount is an integer >= 0, and the
\* bet_amount is 0 with a non-empty error list when
\* min(bankroll - floor_balance, max_bet) <= 0.
C25_BetNeverNegative ==
    (/\ strategy = "risk_adjusted_bet_amount"
     /\ strategy_result # None
     /\ MissingOf(BetAmount_REQUIRED_FIELDS) = {})
    => LET r == Val(strategy_result)
       IN  /\ r.raised = "none"
           /\ "bet_amount" \in DOMAIN r.returned
           /\ r.returned.bet_amount \in Nat
           /\ min(Val(run_kwargs["bankroll"])
                      - Val(run_kwargs["floor_balance"]), GivenMaxBet) <= 0
              => /\ r.returned.bet_amount = 0
                 /\ r.returned.error # <<>>

\* the keyword arguments without the fields outside `fields`
Accepted(fields) == [k \in DOMAIN run_kwargs \cap fields |-> run_kwargs[k]]

\* C26: a run of either strategy that lacks a required field (absent or
\* None) returns nothing but an error that names the missing fields, and
\* the result of a run is the result of the run without the fields outside
\* the accepted set.
C26_MissingFieldsAndDroppedFields ==
    strategy_result # None
    => LET r == Val(strategy_result)
           required == IF strategy = "risk_adjusted_bet_amount"
                       THEN BetAmount_REQUIRED_FIELDS
                       ELSE PositionSize_REQUIRED_FIELDS
           accepted == IF strategy = "risk_adjusted_bet_amount"
                       THEN BetAmount_ALL_FIELDS
                       ELSE PositionSize_REQUIRED_FIELDS
       IN  /\ MissingOf(required) # {}
              => /\ r.raised = "none"
                 /\ DOMAIN r.returned = {"error"}
                 /\ Len(r.returned.error) = 1
                 /\ r.returned.error[1].missing = MissingOf(required)
           /\ r = IF strategy = "risk_adjusted_bet_amount"
                  THEN BetAmount_run(Accepted(accepted))
                  ELSE PositionSize_run(Accepted(accepted))

\* C26 witness: the bet strategy was run with a field outside its set, with
\* a bankroll of None and without a floor balance, and returned the error
C26_Witness ==
    /\ strategy = "risk_adjusted_bet_amount"
    /\ strategy_result # None
    /\ "confidence" \in DOMAIN run_kwargs
    /\ "bankroll" \in DOMAIN run_kwargs
    /\ run_kwargs["bankroll"] = None
    /\ "floor_balance" \notin DOMAIN run_kwargs
    /\ DOMAIN Val(strategy_result).returned = {"error"}

\* every remote call of the log
AllCalls == {i \in 1..Len(trace) : trace[i].ev = "call"}

\* C21: without a configured service id the activation issues no remote
\* call and sleeps in no poll: its log holds the warning, then the
\* submission of the payload and the end of the round, and its clock has
\* not moved.
C21_NoServiceIdNoCallNoSleep ==
    params.on_chain_service_id = None
    => /\ AllCalls = {}
       /\ Events("sleep") = {}
       /\ fails = 0
       /\ now = 0
       /\ trace # <<>> => /\ trace[1].ev = "warning"
                          /\ Emitted
       /\ \A i \in 2..Len(trace) :
              trace[i].ev \in {"submit", "round_end", "set_done"}

\* C21 witness: the payload of an activation without a service id was
\* submitted right after the warning
C21_Witness ==
    /\ params.on_chain_service_id = None
    /\ Len(trace) = 2
    /\ trace[1].ev = "warning"
    /\ trace[2].ev = "submit"

\* the reads and builder calls of a due activation, in the order of the code
DueCallables ==
    <<"get_service_staking_state", "get_next_checkpoint_ts",
      "build_checkpoint_tx", "get_raw_safe_transaction_hash">>

\* C22: each of the staking-state read, the next-checkpoint read and the
\* build_checkpoint_tx call succeeds at most once in an activation and is
\* not issued again after it succeeded, and every call of a later step comes
\* after the successful call of each earlier step.
C22_RetriesStayInFailingStep ==
    \A k \in 1..Len(DueCallables) :
        /\ Cardinality(OkCalls(DueCallables[k])) <= 1
        /\ \A i \in OkCalls(DueCallables[k]), j \in Calls(DueCallables[k]) :
               j <= i
        /\ \A m \in 1..Len(DueCallables) :
               m > k
               => \A j \in Calls(DueCallables[m]) :
                      \E i \in OkCalls(DueCallables[k]) : i < j

\* C22 witness: the hash derivation failed twice after the one build call
C22_Witness ==
    /\ Cardinality(Calls("build_checkpoint_tx")) = 1
    /\ Cardinality(Calls("get_raw_safe_transaction_hash")
                       \cap FalseTurns) = 2
    /\ Cardinality(Calls("get_raw_safe_transaction_hash")) = 3
    /\ Emitted

\* C23: TimeoutException is raised only with the false result of an
\* invocation of the condition as the last thing that happened, never while
\* the poll sleeps; a poll whose condition returned true has returned
\* without an exception, whatever the clock says then.
C23_TimeoutOnlyAfterFalse ==
    /\ raised = "TimeoutException"
       => /\ Len(trace) \in FalseTurns
          /\ ppc = "idle"
          /\ pc # "returned"
    /\ ppc = "sleep" => raised = "none"
    /\ \A i \in TrueTurns :
           /\ i = Len(trace)
           /\ raised = "none"
           /\ pc = "returned"

\* C23 witness: a poll with a timeout has returned after an invocation that
\* returned true later than the timeout after the poll was called
C23_Witness ==
    /\ pc = "returned"
    /\ raised = "none"
    /\ timeout # None
    /\ now > Val(timeout)
    /\ last_step = MaxStepTime
    /\ trace[Len(trace)].ev = "call"
    /\ trace[Len(trace)].status = "ok"

====
